---- MODULE Spec2Model ----
(***************************************************************************)
(* PluginRegistry of src/core/plugins/registry.py as a state machine.      *)
(*                                                                         *)
(* The registry's methods are coroutines: the code between two awaits      *)
(* runs atomically on the event loop, and a call can be suspended at each  *)
(* await of a plugin action (check_version_compatibility,                  *)
(* validate_dependencies, initialize, shutdown).  Every action below is    *)
(* one such atomic stretch of one call.  A call is carried by a task;      *)
(* Spec lets a single caller issue one call after the other, SpecConc lets *)
(* several tasks have calls in flight at once.                             *)
(*                                                                         *)
(* DependencyManager of src/core/plugins/dependencies.py is modelled the   *)
(* same way: validate_dependencies is suspended at each await of the       *)
(* installed-version lookup, resolve_dependencies has no await.  Its       *)
(* specifications are SpecValidate, SpecCache, SpecCacheConc and           *)
(* SpecResolve; the registry stands still in them.                         *)
(***************************************************************************)
EXTENDS Integers, Sequences, FiniteSets, TLC

\* ---------------------------------------------------------------- bounds
MaxIds == 2
MaxInsts == 2
MaxTasks == 2
MaxTime == 3                \* the clock stops here
MaxPlugins == 2             \* length of the list given to resolve_dependencies

Ids == 1..MaxIds            \* plugin ids
Insts == 1..MaxInsts        \* distinct plugin objects carrying one id
Tasks == 1..MaxTasks        \* concurrent callers of the registry
SeqTasks == {1}             \* the single caller of the sequential runs
\* The concurrent callers contend for one id.  Every write of the registry
\* is to the entry of the call's own id (self._plugins[id], self._metadata[id],
\* the occurrence of id in self._active_formats), so calls on different ids
\* do not race with each other.
ConcIds == {1}

\* ---------------------------------------------------------------- values
\* PluginStatus, src/core/models.py
REGISTERED == "REGISTERED"
INITIALIZING == "INITIALIZING"
ACTIVE == "ACTIVE"
ERROR == "ERROR"
PluginStatus == {REGISTERED, INITIALIZING, ACTIVE, ERROR}

\* what dict.get returns for a key that is absent
None == 0

\* a metadata record that does not exist has no status
UNREGISTERED == "UNREGISTERED"

\* what a call hands back to its caller: a ValidationResult (is_valid and
\* the error it carries), or an exception that escapes the call
NoResult == "no_result"
Valid == "valid"
AlreadyRegistered == "already_registered"
CompatFailed == "compatibility_failed"
DepFailed == "dependencies_failed"
NotFound == "not_found"
InitFailed == "initialize_failed"
ShutdownFailed == "shutdown_failed"
Raised == "raised"

\* outcomes of an awaited plugin action
Outcomes == {"ok", "fail", "raise"}

VARIABLES
    plugins,          \* self._plugins: id -> plugin object, None when absent
    metadata,         \* self._metadata: id -> reference to a PluginMetadata
    metaObjs,         \* the PluginMetadata objects: reference -> format.status
    active_formats,   \* self._active_formats: list of ids
    tasks,            \* the calls in flight and their local variables
    validation_cache, \* DependencyManager._validation_cache
    now,              \* datetime.utcnow()
    calls,            \* the DependencyManager calls in flight, their locals
    view              \* what a caller got from the registry's accessors

regVars == <<plugins, metadata, metaObjs, active_formats, tasks>>
depVars == <<validation_cache, now, calls>>
vars == <<plugins, metadata, metaObjs, active_formats, tasks,
          validation_cache, now, calls, view>>

\* ------------------------------------------------------------- helpers
RECURSIVE CountOf(_, _)
CountOf(s, x) ==
    IF s = <<>> THEN 0
    ELSE (IF Head(s) = x THEN 1 ELSE 0) + CountOf(Tail(s), x)

Contains(s, x) == \E k \in 1..Len(s) : s[k] = x

\* list.remove(x): drops the first occurrence
RECURSIVE RemoveFirst(_, _)
RemoveFirst(s, x) ==
    IF s = <<>> THEN <<>>
    ELSE IF Head(s) = x THEN Tail(s)
    ELSE <<Head(s)>> \o RemoveFirst(Tail(s), x)

\* metadata.format.status of the record the registry holds for id
StatusOf(id) ==
    IF metadata[id] = None THEN UNREGISTERED ELSE metaObjs[metadata[id]]

Statuses == [i \in Ids |-> StatusOf(i)]

IdleTask ==
    [op |-> "none", pc |-> "idle", id |-> None, inst |-> None,
     meta |-> None, compat |-> "none", dep |-> "none", action |-> "none",
     invoked |-> <<>>, result |-> NoResult]

CanCall(t) == tasks[t].pc \in {"idle", "done"}

\* a call starts: fresh locals
Started(t, op, id, inst) ==
    [IdleTask EXCEPT !.op = op, !.id = id, !.inst = inst]

\* the call ends and hands res to its caller
Return(rec, res) == [rec EXCEPT !.pc = "done", !.result = res]

\* ------------------------------------------- DependencyManager: values
\* DependencyType and DependencyScope, src/core/models.py
REQUIRED == "REQUIRED"
OPTIONAL == "OPTIONAL"
RUNTIME == "RUNTIME"
TEST == "TEST"

\* DependencyConfig.cache_ttl, in ticks of the clock
cache_ttl == 2

\* names of dependencies, as in the tests
DepNames == {"numpy", "pytest"}

\* installed versions: 19 stands for 1.19.0, 20 for 1.20.0
Versions == {19, 20}

\* version requirement strings: ">=1.20.0", "<1.20.0", the empty string (no
\* constraint) and a string that is not a specifier ("=>1.20.0")
ReqAtLeast == [op |-> ">=", v |-> 20]
ReqBelow == [op |-> "<", v |-> 20]
ReqEmpty == [op |-> "", v |-> 0]
ReqMalformed == [op |-> "=>", v |-> 20]
Reqs == {ReqAtLeast, ReqBelow, ReqEmpty, ReqMalformed}

\* Requirement(f"{dep_name}{dep_spec.version}") does not raise
Parses(req) == req.op \in {">=", "<", ""}

\* `installed_version in req.specifier`
SpecifierContains(v, req) ==
    CASE req.op = ">=" -> v >= req.v
      [] req.op = "<" -> v < req.v
      [] req.op = "" -> TRUE

\* truth value of a requirement string: only the empty string is false
Truthy(req) == req.op # ""

\* one entry of PluginMetadata.dependencies: the key and its DependencySpec
DepEntries ==
    [name : DepNames, version : Reqs,
     type : {REQUIRED, OPTIONAL}, scope : {RUNTIME, TEST}]

\* PluginMetadata.dependencies: a dict, so its keys are distinct; it is
\* iterated in insertion order
DepMapsOver(E) ==
    {<<>>} \cup {<<d>> : d \in E}
           \cup {<<x[1], x[2]>> : x \in {y \in E \X E : y[1].name # y[2].name}}

\* the cache keys (plugin_metadata.id, plugin_metadata.version)
CacheKeys == {<<"test-plugin", "1.0.0">>, <<"empty-plugin", "1.0.0">>}

\* what self._get_installed_version can do: a version, None, or raise
Installed(v) == [kind |-> "version", v |-> v]
NotInstalled == [kind |-> "none", v |-> 0]
LookupRaises == [kind |-> "raise", v |-> 0]
LookupOutcomes == {Installed(v) : v \in Versions} \cup {NotInstalled, LookupRaises}

\* ErrorResponse codes
DEP001 == "DEP001"
DEP002 == "DEP002"
DEP003 == "DEP003"
DEP004 == "DEP004"
DEP005 == "DEP005"

\* no ValidationResult yet
NoValidation ==
    [is_valid |-> FALSE, errors |-> <<[code |-> "none", dep |-> ""]>>,
     warnings |-> <<>>]

\* no cache entry for the key
NoEntry == [result |-> NoValidation, timestamp |-> 0 - 1]

IdleCall ==
    [op |-> "none", pc |-> "idle", key |-> <<"", "">>, deps |-> <<>>, i |-> 0,
     errors |-> <<>>, warnings |-> <<>>, looked |-> <<>>, seen |-> <<>>,
     found |-> FALSE, hit |-> FALSE, plist |-> <<>>, result |-> NoValidation]

\* what a caller holds before it has read an accessor
NoView == [plugins |-> <<>>, metadata |-> <<>>, active_formats |-> <<>>]

\* ---------------------------------------------------------------- init
Init ==
    /\ plugins = [i \in Ids |-> None]
    /\ metadata = [i \in Ids |-> None]
    /\ metaObjs = <<>>
    /\ active_formats = <<>>
    /\ tasks = [t \in Tasks |-> IdleTask]
    /\ validation_cache = [k \in CacheKeys |-> NoEntry]
    /\ now = 0
    /\ calls = [t \in Tasks |-> IdleCall]
    /\ view = NoView

\* ---------------------------------------------------- register_plugin
\* variant: the duplicate check looks in the wrong collection
IsRegisteredInActive(id) == Contains(active_formats, id)

\* `plugin.id in self._plugins`
IsRegistered(id) == plugins[id] # None

\* `if not compat_result.is_compatible` is not taken
CompatAccepted(outcome) == outcome = "ok"

\* variant: the result of validate_dependencies is not looked at
DepAcceptedAlways(outcome) == TRUE

\* `if not dep_result.is_valid` is not taken
DepAccepted(outcome) == outcome = "ok"

\* variant: dependency validation is called first
RegisterBeginDepFirst(t, id, inst) ==
    /\ CanCall(t)
    /\ IF IsRegistered(id)
       THEN tasks' = [tasks EXCEPT ![t] =
                Return(Started(t, "register", id, inst), AlreadyRegistered)]
       ELSE tasks' = [tasks EXCEPT ![t] =
                [Started(t, "register", id, inst) EXCEPT
                    !.pc = "dep",
                    !.invoked = <<"validate_dependencies">>]]
    /\ UNCHANGED <<plugins, metadata, metaObjs, active_formats>>

\* entry of register_plugin up to the first await: the duplicate check, then
\* the call of plugin.check_version_compatibility
RegisterBegin(t, id, inst) ==
    /\ CanCall(t)
    /\ IF IsRegistered(id)
       THEN tasks' = [tasks EXCEPT ![t] =
                Return(Started(t, "register", id, inst), AlreadyRegistered)]
       ELSE tasks' = [tasks EXCEPT ![t] =
                [Started(t, "register", id, inst) EXCEPT
                    !.pc = "compat",
                    !.invoked = <<"check_version_compatibility">>]]
    /\ UNCHANGED <<plugins, metadata, metaObjs, active_formats>>

\* check_version_compatibility comes back: incompatible is rejected, an
\* exception escapes register_plugin (no try), compatible goes on to call
\* plugin.validate_dependencies
RegisterCompat(t, outcome) ==
    /\ tasks[t].pc = "compat"
    /\ LET rec == [tasks[t] EXCEPT !.compat = outcome] IN
       tasks' = [tasks EXCEPT ![t] =
           IF outcome = "raise" THEN Return(rec, Raised)
           ELSE IF ~CompatAccepted(outcome) THEN Return(rec, CompatFailed)
           ELSE [rec EXCEPT !.pc = "dep",
                            !.invoked = Append(@, "validate_dependencies")]]
    /\ UNCHANGED <<plugins, metadata, metaObjs, active_formats>>

\* variant: the accepted plugin gets a metadata record and no entry in the
\* plugin table
RegisterDepMetadataOnly(t, outcome) ==
    /\ tasks[t].pc = "dep"
    /\ LET rec == [tasks[t] EXCEPT !.dep = outcome] IN
       IF outcome = "raise"
       THEN /\ tasks' = [tasks EXCEPT ![t] = Return(rec, Raised)]
            /\ UNCHANGED <<plugins, metadata, metaObjs, active_formats>>
       ELSE IF ~DepAccepted(outcome)
       THEN /\ tasks' = [tasks EXCEPT ![t] = Return(rec, DepFailed)]
            /\ UNCHANGED <<plugins, metadata, metaObjs, active_formats>>
       ELSE /\ metaObjs' = Append(metaObjs, REGISTERED)
            /\ metadata' = [metadata EXCEPT ![rec.id] = Len(metaObjs) + 1]
            /\ tasks' = [tasks EXCEPT ![t] = Return(rec, Valid)]
            /\ UNCHANGED <<plugins, active_formats>>

\* validate_dependencies comes back: invalid is rejected, an exception
\* escapes, valid stores the plugin and a new PluginMetadata whose format
\* status is REGISTERED
RegisterDep(t, outcome) ==
    /\ tasks[t].pc = "dep"
    /\ LET rec == [tasks[t] EXCEPT !.dep = outcome] IN
       IF outcome = "raise"
       THEN /\ tasks' = [tasks EXCEPT ![t] = Return(rec, Raised)]
            /\ UNCHANGED <<plugins, metadata, metaObjs, active_formats>>
       ELSE IF ~DepAccepted(outcome)
       THEN /\ tasks' = [tasks EXCEPT ![t] = Return(rec, DepFailed)]
            /\ UNCHANGED <<plugins, metadata, metaObjs, active_formats>>
       ELSE /\ metaObjs' = Append(metaObjs, REGISTERED)
            /\ plugins' = [plugins EXCEPT ![rec.id] = rec.inst]
            /\ metadata' = [metadata EXCEPT ![rec.id] = Len(metaObjs) + 1]
            /\ tasks' = [tasks EXCEPT ![t] = Return(rec, Valid)]
            /\ UNCHANGED active_formats

\* -------------------------------------------------- initialize_plugin
\* variant: the membership test before the append is missing
AddActiveNoCheck(af, id) == Append(af, id)

\* `if plugin_id not in self._active_formats: append(plugin_id)`
AddActive(af, id) == IF Contains(af, id) THEN af ELSE Append(af, id)

\* status written by the except branch of initialize_plugin
StatusOnInitFailure == ERROR

\* entry of initialize_plugin up to the await of plugin.initialize: lookup,
\* the local reference to the metadata record, status INITIALIZING
InitializeBegin(t, id) ==
    /\ CanCall(t)
    /\ IF ~IsRegistered(id)
       THEN /\ tasks' = [tasks EXCEPT ![t] =
                    Return(Started(t, "initialize", id, None), NotFound)]
            /\ UNCHANGED metaObjs
       ELSE /\ tasks' = [tasks EXCEPT ![t] =
                    [Started(t, "initialize", id, plugins[id]) EXCEPT
                        !.pc = "init",
                        !.meta = metadata[id],
                        !.invoked = <<"initialize">>]]
            /\ metaObjs' = [metaObjs EXCEPT ![metadata[id]] = INITIALIZING]
    /\ UNCHANGED <<plugins, metadata, active_formats>>

\* plugin.initialize comes back: on success the record the call holds
\* becomes ACTIVE and the id joins active_formats; any exception is caught
\* and the record becomes ERROR
InitializeEnd(t, outcome) ==
    /\ tasks[t].pc = "init"
    /\ outcome \in {"ok", "raise"}
    /\ LET rec == [tasks[t] EXCEPT !.action = outcome] IN
       IF outcome = "ok"
       THEN /\ metaObjs' = [metaObjs EXCEPT ![rec.meta] = ACTIVE]
            /\ active_formats' = AddActive(active_formats, rec.id)
            /\ tasks' = [tasks EXCEPT ![t] = Return(rec, Valid)]
       ELSE /\ metaObjs' = [metaObjs EXCEPT ![rec.meta] = StatusOnInitFailure]
            /\ tasks' = [tasks EXCEPT ![t] = Return(rec, InitFailed)]
            /\ UNCHANGED active_formats
    /\ UNCHANGED <<plugins, metadata>>

\* ---------------------------------------------------- shutdown_plugin
\* `if plugin_id in self._active_formats: remove(plugin_id)`
RemoveActive(af, id) == IF Contains(af, id) THEN RemoveFirst(af, id) ELSE af

\* variant: the lookup result is not tested; plugin.shutdown() on None raises
\* inside the try and is reported as a shutdown failure
ShutdownBeginNoLookupTest(t, id) ==
    /\ CanCall(t)
    /\ tasks' = [tasks EXCEPT ![t] =
           IF ~IsRegistered(id)
           THEN Return(Started(t, "shutdown", id, None), ShutdownFailed)
           ELSE [Started(t, "shutdown", id, plugins[id]) EXCEPT
                    !.pc = "shut", !.invoked = <<"shutdown">>]]
    /\ UNCHANGED <<plugins, metadata, metaObjs, active_formats>>

\* entry of shutdown_plugin up to the await of plugin.shutdown
ShutdownBegin(t, id) ==
    /\ CanCall(t)
    /\ tasks' = [tasks EXCEPT ![t] =
           IF ~IsRegistered(id)
           THEN Return(Started(t, "shutdown", id, None), NotFound)
           ELSE [Started(t, "shutdown", id, plugins[id]) EXCEPT
                    !.pc = "shut", !.invoked = <<"shutdown">>]]
    /\ UNCHANGED <<plugins, metadata, metaObjs, active_formats>>

\* variant: a failed shutdown marks the plugin ERROR, as a failed
\* initialize does
ShutdownEndMarksError(t, outcome) ==
    /\ tasks[t].pc = "shut"
    /\ outcome \in {"ok", "raise"}
    /\ LET rec == [tasks[t] EXCEPT !.action = outcome] IN
       IF outcome = "ok"
       THEN /\ metaObjs' = [metaObjs EXCEPT ![metadata[rec.id]] = REGISTERED]
            /\ active_formats' = RemoveFirst(active_formats, rec.id)
            /\ tasks' = [tasks EXCEPT ![t] = Return(rec, Valid)]
       ELSE /\ metaObjs' = [metaObjs EXCEPT ![metadata[rec.id]] = ERROR]
            /\ tasks' = [tasks EXCEPT ![t] = Return(rec, ShutdownFailed)]
            /\ UNCHANGED active_formats
    /\ UNCHANGED <<plugins, metadata>>

\* plugin.shutdown comes back: on success the record the registry holds
\* now for the id becomes REGISTERED and the id leaves active_formats; any
\* exception is caught and nothing is written
ShutdownEnd(t, outcome) ==
    /\ tasks[t].pc = "shut"
    /\ outcome \in {"ok", "raise"}
    /\ LET rec == [tasks[t] EXCEPT !.action = outcome] IN
       IF outcome = "ok"
       THEN /\ metaObjs' = [metaObjs EXCEPT ![metadata[rec.id]] = REGISTERED]
            /\ active_formats' = RemoveActive(active_formats, rec.id)
            /\ tasks' = [tasks EXCEPT ![t] = Return(rec, Valid)]
       ELSE /\ tasks' = [tasks EXCEPT ![t] = Return(rec, ShutdownFailed)]
            /\ UNCHANGED <<metaObjs, active_formats>>
    /\ UNCHANGED <<plugins, metadata>>

\* ------------------------------------------- validate_dependencies
CanCallDep(c) == calls[c].pc \in {"idle", "done"}

\* variant: an entry whose age equals the TTL is still served
CacheFreshInclusive(entry) ==
    entry # NoEntry /\ now - entry.timestamp <= cache_ttl

\* `cache_key in self._validation_cache` and
\* `datetime.utcnow() - timestamp < self._config.cache_ttl`
CacheFresh(entry) ==
    entry # NoEntry /\ now - entry.timestamp < cache_ttl

\* variant: test dependencies are validated like the others
IsSkippedNever(dep) == FALSE

\* `if dep_spec.scope == DependencyScope.TEST: continue`
IsSkipped(dep) == dep.scope = TEST

\* index of the next dependency after i that the loop does not skip,
\* Len(deps) + 1 when the loop is over
RECURSIVE NextEvaluated(_, _)
NextEvaluated(deps, i) ==
    IF i + 1 > Len(deps) THEN Len(deps) + 1
    ELSE IF IsSkipped(deps[i + 1]) THEN NextEvaluated(deps, i + 1)
    ELSE i + 1

\* variant: a Required dependency at a wrong version only gets a warning
EvaluateMismatchWarns(rec, dep, outcome) ==
    LET seen == [rec EXCEPT !.seen = Append(@, outcome)] IN
    IF outcome.kind = "raise"
    THEN [seen EXCEPT !.errors = Append(@, [code |-> DEP003, dep |-> dep.name])]
    ELSE IF outcome.kind = "none"
    THEN IF dep.type = REQUIRED
         THEN [seen EXCEPT !.errors =
                  Append(@, [code |-> DEP001, dep |-> dep.name])]
         ELSE [seen EXCEPT !.warnings =
                  Append(@, [kind |-> "not_installed", dep |-> dep.name])]
    ELSE IF ~Parses(dep.version)
    THEN [seen EXCEPT !.errors = Append(@, [code |-> DEP003, dep |-> dep.name])]
    ELSE IF SpecifierContains(outcome.v, dep.version) THEN seen
    ELSE [seen EXCEPT !.warnings =
             Append(@, [kind |-> "mismatch", dep |-> dep.name])]

\* the body of the loop for one dependency once the lookup has come back:
\* the try block and its except branch
Evaluate(rec, dep, outcome) ==
    LET seen == [rec EXCEPT !.seen = Append(@, outcome)] IN
    IF outcome.kind = "raise"
    THEN [seen EXCEPT !.errors = Append(@, [code |-> DEP003, dep |-> dep.name])]
    ELSE IF outcome.kind = "none"
    THEN IF dep.type = REQUIRED
         THEN [seen EXCEPT !.errors =
                  Append(@, [code |-> DEP001, dep |-> dep.name])]
         ELSE [seen EXCEPT !.warnings =
                  Append(@, [kind |-> "not_installed", dep |-> dep.name])]
    ELSE IF ~Parses(dep.version)
    THEN [seen EXCEPT !.errors = Append(@, [code |-> DEP003, dep |-> dep.name])]
    ELSE IF SpecifierContains(outcome.v, dep.version) THEN seen
    ELSE IF dep.type = REQUIRED
    THEN [seen EXCEPT !.errors = Append(@, [code |-> DEP002, dep |-> dep.name])]
    ELSE [seen EXCEPT !.warnings =
             Append(@, [kind |-> "mismatch", dep |-> dep.name])]

\* `ValidationResult(is_valid=len(errors) == 0, errors=..., warnings=...)`
BuildResult(errors, warnings) ==
    [is_valid |-> Len(errors) = 0, errors |-> errors, warnings |-> warnings]

\* variant: the entry is stored without the time of the computation
CacheEntryNoTime(result) == [result |-> result, timestamp |-> 0]

\* `(result, datetime.utcnow())`
CacheEntry(result) == [result |-> result, timestamp |-> now]

\* variant: only a valid result is put in the cache
ContinueCachesValidOnly(c, rec) ==
    LET j == NextEvaluated(rec.deps, rec.i) IN
    IF j > Len(rec.deps)
    THEN LET result == BuildResult(rec.errors, rec.warnings) IN
         /\ calls' = [calls EXCEPT ![c] =
                [rec EXCEPT !.pc = "done", !.i = j, !.result = result]]
         /\ validation_cache' =
                IF result.is_valid
                THEN [validation_cache EXCEPT ![rec.key] = CacheEntry(result)]
                ELSE validation_cache
    ELSE /\ calls' = [calls EXCEPT ![c] =
                [rec EXCEPT !.pc = "lookup", !.i = j,
                            !.looked = Append(@, rec.deps[j].name)]]
         /\ UNCHANGED validation_cache

\* the loop runs on from dependency rec.i to the next await of the lookup,
\* or to its end, where the result is built, cached and returned
Continue(c, rec) ==
    LET j == NextEvaluated(rec.deps, rec.i) IN
    IF j > Len(rec.deps)
    THEN LET result == BuildResult(rec.errors, rec.warnings) IN
         /\ calls' = [calls EXCEPT ![c] =
                [rec EXCEPT !.pc = "done", !.i = j, !.result = result]]
         /\ validation_cache' =
                [validation_cache EXCEPT ![rec.key] = CacheEntry(result)]
    ELSE /\ calls' = [calls EXCEPT ![c] =
                [rec EXCEPT !.pc = "lookup", !.i = j,
                            !.looked = Append(@, rec.deps[j].name)]]
         /\ UNCHANGED validation_cache

\* entry of validate_dependencies: the cache check, then the loop up to the
\* first await
ValidateBegin(c, key, deps) ==
    /\ CanCallDep(c)
    /\ LET rec == [IdleCall EXCEPT !.op = "validate", !.key = key,
                                   !.deps = deps,
                                   !.found = validation_cache[key] # NoEntry] IN
       IF CacheFresh(validation_cache[key])
       THEN /\ calls' = [calls EXCEPT ![c] =
                   [rec EXCEPT !.pc = "done", !.hit = TRUE,
                               !.result = validation_cache[key].result]]
            /\ UNCHANGED validation_cache
       ELSE Continue(c, rec)
    /\ UNCHANGED now

\* variant: the first failure ends the loop
ValidateLookupStopsOnRaise(c, outcome) ==
    /\ calls[c].pc = "lookup"
    /\ LET rec == Evaluate(calls[c], calls[c].deps[calls[c].i], outcome) IN
       IF outcome.kind = "raise"
       THEN Continue(c, [rec EXCEPT !.i = Len(rec.deps)])
       ELSE Continue(c, rec)
    /\ UNCHANGED now

\* self._get_installed_version comes back for dependency i
ValidateLookup(c, outcome) ==
    /\ calls[c].pc = "lookup"
    /\ Continue(c, Evaluate(calls[c], calls[c].deps[calls[c].i], outcome))
    /\ UNCHANGED now

\* time passes
Tick ==
    /\ now < MaxTime
    /\ now' = now + 1
    /\ UNCHANGED <<validation_cache, calls>>

\* -------------------------------------------- resolve_dependencies
\* the plugins of the tests
PluginIds == {"plugin1", "plugin2"}

\* dependency maps given to resolve_dependencies: requirement strings that
\* parse, type and scope as in the tests
ResolveDepMaps ==
    DepMapsOver({e \in DepEntries :
        e.version \in {ReqAtLeast, ReqBelow, ReqEmpty}
            /\ e.type = REQUIRED /\ e.scope = RUNTIME})

\* the lists of PluginMetadata given to resolve_dependencies
RECURSIVE ListsUpTo(_, _)
ListsUpTo(S, n) ==
    IF n = 0 THEN {<<>>}
    ELSE ListsUpTo(S, n - 1) \cup
         {Append(l, x) : l \in {m \in ListsUpTo(S, n - 1) : Len(m) = n - 1},
                         x \in S}
PluginLists ==
    ListsUpTo([id : PluginIds, dependencies : ResolveDepMaps], MaxPlugins)

\* the dependency names in the order the loops insert them as keys
RECURSIVE NamesOf(_)
NamesOf(deps) ==
    IF deps = <<>> THEN <<>> ELSE <<Head(deps).name>> \o NamesOf(Tail(deps))
RECURSIVE Dedupe(_, _)
Dedupe(names, have) ==
    IF names = <<>> THEN <<>>
    ELSE IF Head(names) \in have THEN Dedupe(Tail(names), have)
    ELSE <<Head(names)>> \o Dedupe(Tail(names), have \cup {Head(names)})
RECURSIVE AllNames(_)
AllNames(plist) ==
    IF plist = <<>> THEN <<>>
    ELSE NamesOf(Head(plist).dependencies) \o AllNames(Tail(plist))
GraphKeys(plist) == Dedupe(AllNames(plist), {})

\* dependencies[dep_name]: the set of (plugin.id, dep_spec.version)
Requirements(plist, n) ==
    {<<plist[k].id, plist[k].dependencies[j].version>> :
        <<k, j>> \in {x \in (1..Len(plist)) \X (1..2) :
            /\ x[2] <= Len(plist[x[1]].dependencies)
            /\ plist[x[1]].dependencies[x[2]].name = n}}

\* _merge_version_requirements: `next(iter(requirements))[1]`, the version
\* of whichever element the set yields first; the order of a set of tuples
\* of strings is not fixed, so every element is a possible answer
MergeVersionRequirements(requirements) == {r[2] : r \in requirements}

\* resolve_dependencies: no await, the whole call is one step
ResolveDependencies(c) ==
    /\ calls[c].pc = "idle"
    /\ LET plist == calls[c].plist
           keys == GraphKeys(plist)
           Checked(n) == Cardinality(Requirements(plist, n)) > 1
       IN \E merged \in [DepNames -> Reqs] :
            /\ \A n \in DepNames :
                  merged[n] \in
                      (IF Checked(n)
                       THEN MergeVersionRequirements(Requirements(plist, n))
                       ELSE {ReqEmpty})
            /\ LET Failed(n) == Checked(n) /\ ~Truthy(merged[n])
                   failed == SelectSeq(keys, Failed)
                   errors == [k \in 1..Len(failed) |->
                                 [code |-> DEP004, dep |-> failed[k]]]
               IN calls' = [calls EXCEPT ![c] =
                      [@ EXCEPT !.op = "resolve", !.pc = "done",
                                !.result = BuildResult(errors, <<>>)]]
    /\ UNCHANGED <<validation_cache, now>>

\* ------------------------------------------------------------ accessors
\* The caller of the registry reads the three properties between its
\* calls.  Each returns `.copy()` of the collection: a new dict or list
\* whose elements are the objects the registry holds, so view.metadata
\* carries the registry's references into metaObjs.

\* `registry.plugins`
ReadPlugins ==
    /\ view' = [view EXCEPT !.plugins = plugins]
    /\ UNCHANGED <<regVars, depVars>>

\* `registry.metadata`
ReadMetadata ==
    /\ view' = [view EXCEPT !.metadata = metadata]
    /\ UNCHANGED <<regVars, depVars>>

\* `registry.active_formats`
ReadActiveFormats ==
    /\ view' = [view EXCEPT !.active_formats = active_formats]
    /\ UNCHANGED <<regVars, depVars>>

\* the caller puts an entry into the dict it got from `plugins`
ViewPutPlugin(id, inst) ==
    /\ view.plugins # <<>>
    /\ view' = [view EXCEPT !.plugins[id] = inst]
    /\ UNCHANGED <<regVars, depVars>>

\* the caller deletes an entry of the dict it got from `plugins`
ViewDelPlugin(id) ==
    /\ view.plugins # <<>>
    /\ view.plugins[id] # None
    /\ view' = [view EXCEPT !.plugins[id] = None]
    /\ UNCHANGED <<regVars, depVars>>

\* the caller deletes an entry of the dict it got from `metadata`
ViewDelMetadata(id) ==
    /\ view.metadata # <<>>
    /\ view.metadata[id] # None
    /\ view' = [view EXCEPT !.metadata[id] = None]
    /\ UNCHANGED <<regVars, depVars>>

\* the caller appends to the list it got from `active_formats`
ViewAppendActive(id) ==
    /\ Len(view.active_formats) < MaxIds
    /\ view' = [view EXCEPT !.active_formats = Append(@, id)]
    /\ UNCHANGED <<regVars, depVars>>

\* the caller removes from the list it got from `active_formats`
ViewRemoveActive(id) ==
    /\ Contains(view.active_formats, id)
    /\ view' = [view EXCEPT !.active_formats = RemoveFirst(@, id)]
    /\ UNCHANGED <<regVars, depVars>>

\* the caller assigns `format.status` of a record of the dict it got from
\* `metadata`: the record is the PluginMetadata object the registry holds,
\* and the model's fields are assignable (the registry assigns them too)
ViewSetStatus(id, s) ==
    /\ view.metadata # <<>>
    /\ view.metadata[id] # None
    /\ metaObjs' = [metaObjs EXCEPT ![view.metadata[id]] = s]
    /\ UNCHANGED <<plugins, metadata, active_formats, tasks, depVars, view>>

\* what the caller does with the registry's views over the ids of I
CallerStep(I) ==
    \/ ReadPlugins
    \/ ReadMetadata
    \/ ReadActiveFormats
    \/ \E id \in I, inst \in Insts : ViewPutPlugin(id, inst)
    \/ \E id \in I : ViewDelPlugin(id)
    \/ \E id \in I : ViewDelMetadata(id)
    \/ \E id \in I : ViewAppendActive(id)
    \/ \E id \in I : ViewRemoveActive(id)
    \/ \E id \in I, s \in PluginStatus : ViewSetStatus(id, s)

\* ------------------------------------------------------ specifications
Step(t, I) ==
    \/ \E id \in I, inst \in Insts : RegisterBegin(t, id, inst)
    \/ \E o \in Outcomes : RegisterCompat(t, o)
    \/ \E o \in Outcomes : RegisterDep(t, o)
    \/ \E id \in I : InitializeBegin(t, id)
    \/ \E o \in Outcomes : InitializeEnd(t, o)
    \/ \E id \in I : ShutdownBegin(t, id)
    \/ \E o \in Outcomes : ShutdownEnd(t, o)

\* one caller, every call awaited before the next one is made
Next == (\E t \in SeqTasks : Step(t, Ids)) /\ UNCHANGED <<depVars, view>>
Spec == Init /\ [][Next]_vars

\* several callers whose calls overlap at the awaits; they contend for the
\* id of ConcIds
NextConc == (\E t \in Tasks : Step(t, ConcIds)) /\ UNCHANGED <<depVars, view>>
SpecConc == Init /\ [][NextConc]_vars

\* the overlapping callers, when every awaited plugin.initialize comes back
\* (it returns or it raises)
InitializeReturns(t) ==
    (\E o \in Outcomes : InitializeEnd(t, o)) /\ UNCHANGED <<depVars, view>>
SpecConcFair == SpecConc /\ \A t \in Tasks : WF_vars(InitializeReturns(t))

\* one caller that makes its calls one after the other on the id of ConcIds
\* and, between two calls, reads the accessors and changes what it got
NextAccess ==
    \/ (\E t \in SeqTasks : Step(t, ConcIds)) /\ UNCHANGED <<depVars, view>>
    \/ (\A t \in SeqTasks : CanCall(t)) /\ CallerStep(ConcIds)
SpecAccess == Init /\ [][NextAccess]_vars

\* validate_dependencies on one plugin with any dependency map and any
\* answers of the lookup, on a clock that stands still
ValidateKeys == {<<"test-plugin", "1.0.0">>}
ValidateDepMaps ==
    DepMapsOver({e \in DepEntries : e.version \in {ReqAtLeast, ReqMalformed}})
NextValidate ==
    /\ \/ \E deps \in ValidateDepMaps : \E k \in ValidateKeys :
             ValidateBegin(1, k, deps)
       \/ \E o \in LookupOutcomes : ValidateLookup(1, o)
    /\ UNCHANGED <<regVars, view>>
SpecValidate == Init /\ [][NextValidate]_vars

\* the cache over time: dependency maps of at most one numpy entry, a
\* lookup that finds 1.20.0 or nothing
CacheDepMaps ==
    {<<>>} \cup {<<d>> : d \in {e \in DepEntries :
                     e.name = "numpy" /\ e.version = ReqAtLeast
                                      /\ e.type = REQUIRED}}
CacheOutcomes == {Installed(20), NotInstalled}

DepStep(c, K) ==
    \/ \E deps \in CacheDepMaps : \E k \in K : ValidateBegin(c, k, deps)
    \/ \E o \in CacheOutcomes : ValidateLookup(c, o)

\* one caller, two keys
NextCache ==
    /\ (\E c \in SeqTasks : DepStep(c, CacheKeys)) \/ Tick
    /\ UNCHANGED <<regVars, view>>
SpecCache == Init /\ [][NextCache]_vars

\* several callers of validate_dependencies on one key
NextCacheConc ==
    /\ (\E c \in Tasks : DepStep(c, ValidateKeys)) \/ Tick
    /\ UNCHANGED <<regVars, view>>
SpecCacheConc == Init /\ [][NextCacheConc]_vars

\* resolve_dependencies applied once to any list of plugins
InitResolve ==
    /\ plugins = [i \in Ids |-> None]
    /\ metadata = [i \in Ids |-> None]
    /\ metaObjs = <<>>
    /\ active_formats = <<>>
    /\ tasks = [t \in Tasks |-> IdleTask]
    /\ validation_cache = [k \in CacheKeys |-> NoEntry]
    /\ now = 0
    /\ \E plist \in PluginLists :
          calls = [t \in Tasks |->
                     IF t = 1 THEN [IdleCall EXCEPT !.plist = plist]
                     ELSE IdleCall]
    /\ view = NoView
NextResolve == ResolveDependencies(1) /\ UNCHANGED <<regVars, view>>
SpecResolve == InitResolve /\ [][NextResolve]_vars

TypeOK ==
    /\ plugins \in [Ids -> Insts \cup {None}]
    /\ metadata \in [Ids -> 0..Len(metaObjs)]
    /\ \A k \in 1..Len(metaObjs) : metaObjs[k] \in PluginStatus
    /\ \A k \in 1..Len(active_formats) : active_formats[k] \in Ids
    /\ \A t \in Tasks :
          /\ tasks[t].pc \in {"idle", "compat", "dep", "init", "shut", "done"}
          /\ tasks[t].op \in {"none", "register", "initialize", "shutdown"}

\* ------------------------------------------------------------ properties
\* no call is between its entry and its return
Quiescent == \A t \in Tasks : tasks[t].pc \in {"idle", "done"}

\* task t takes a step of its call
Steps(t) == tasks'[t] # tasks[t]

\* task t enters a call
Enters(t) == CanCall(t) /\ Steps(t)

ActiveSet == {active_formats[k] : k \in 1..Len(active_formats)}

RegistryUnchanged == UNCHANGED <<plugins, metadata, metaObjs, active_formats>>

\* C1: whenever no call is in progress, the set of ids in active_formats
\* is exactly the set of registered ids whose metadata status is ACTIVE.
C1_ActiveFormatsAreTheActiveIds ==
    Quiescent => ActiveSet = {i \in Ids : StatusOf(i) = ACTIVE}

\* C2: when initialize_plugin(id) has returned is_valid=true, id is in
\* active_formats exactly once and its status is ACTIVE; when
\* shutdown_plugin(id) has returned is_valid=true, id is not in
\* active_formats and its status is REGISTERED.
C2_InitializeThenShutdown ==
    \A t \in Tasks :
        (tasks[t].pc = "done" /\ tasks[t].result = Valid) =>
            /\ tasks[t].op = "initialize" =>
                  /\ CountOf(active_formats, tasks[t].id) = 1
                  /\ StatusOf(tasks[t].id) = ACTIVE
            /\ tasks[t].op = "shutdown" =>
                  /\ CountOf(active_formats, tasks[t].id) = 0
                  /\ StatusOf(tasks[t].id) = REGISTERED

\* a shutdown has succeeded on a plugin while another one, initialized
\* before it, is still active
C2_Witness ==
    \E t \in Tasks :
        /\ tasks[t].pc = "done" /\ tasks[t].op = "shutdown"
        /\ tasks[t].result = Valid
        /\ StatusOf(tasks[t].id) = REGISTERED
        /\ Len(active_formats) = 1

\* C3: when the plugin's initialize action failed inside
\* initialize_plugin(id), the call returned is_valid=false, the status of
\* id is ERROR and id is not in active_formats.
C3_InitializeFailure ==
    \A t \in Tasks :
        (tasks[t].pc = "done" /\ tasks[t].op = "initialize"
            /\ tasks[t].action = "raise") =>
            /\ tasks[t].result = InitFailed
            /\ StatusOf(tasks[t].id) = ERROR
            /\ ~Contains(active_formats, tasks[t].id)

\* C4: a status that is ERROR stays ERROR in every step.
C4_ErrorIsTerminal ==
    [][\A i \in Ids : StatusOf(i) = ERROR => StatusOf(i)' = ERROR]_vars

\* C5: a status that becomes ACTIVE was INITIALIZING immediately before,
\* also when calls on the same id overlap.
C5_ActiveOnlyFromInitializing ==
    [][\A i \in Ids :
          (StatusOf(i) # ACTIVE /\ StatusOf(i)' = ACTIVE)
              => StatusOf(i) = INITIALIZING]_vars

\* C6: register_plugin entered with an id that is already in the plugin
\* table returns at once with is_valid=false and the 'already registered'
\* error, and the plugin table, the metadata table, every status and
\* active_formats are what they were; the number of registered plugins is
\* the same.
C6_DuplicateRegistration ==
    [][\A t \in Tasks :
          (Enters(t) /\ tasks'[t].op = "register"
              /\ plugins[tasks'[t].id] # None) =>
              /\ tasks'[t].pc = "done"
              /\ tasks'[t].result = AlreadyRegistered
              /\ RegistryUnchanged
              /\ Cardinality({i \in Ids : plugins'[i] # None})
                    = Cardinality({i \in Ids : plugins[i] # None})]_vars

C6_Witness ==
    \E t \in Tasks :
        /\ tasks[t].pc = "done" /\ tasks[t].op = "register"
        /\ tasks[t].result = AlreadyRegistered
        /\ plugins[tasks[t].id] # None

\* C7: the step of register_plugin that stores a plugin is taken only with
\* a compatible compatibility check and a valid dependency validation, and
\* it stores the plugin under its id with status REGISTERED and outside
\* active_formats; every other step of a register_plugin call, so every
\* step of a call that ends with a failed compatibility check or a failed
\* dependency validation, leaves the plugin table, the metadata table,
\* every status and active_formats as they were.
C7_StoreOnlyAfterBothChecks ==
    [][\A t \in Tasks :
          (Steps(t) /\ tasks'[t].op = "register") =>
              IF tasks'[t].result = Valid
              THEN /\ tasks'[t].compat = "ok"
                   /\ tasks'[t].dep = "ok"
                   /\ plugins' = [plugins EXCEPT
                                     ![tasks'[t].id] = tasks'[t].inst]
                   /\ \A i \in Ids \ {tasks'[t].id} :
                         Statuses'[i] = Statuses[i]
                   /\ Statuses'[tasks'[t].id] = REGISTERED
                   /\ ~Contains(active_formats', tasks'[t].id)
                   /\ active_formats' = active_formats
              ELSE RegistryUnchanged]_vars

\* a registration was rejected by dependency validation while another
\* plugin, stored earlier, is active
C7_Witness ==
    \E t \in Tasks :
        /\ tasks[t].pc = "done" /\ tasks[t].op = "register"
        /\ tasks[t].result = DepFailed
        /\ plugins[tasks[t].id] = None
        /\ \E i \in Ids : plugins[i] # None /\ StatusOf(i) = ACTIVE

\* C8: in a register_plugin call validate_dependencies is invoked only
\* after check_version_compatibility was invoked and reported compatible;
\* a call whose compatibility check reported incompatible has returned
\* is_valid=false without invoking validate_dependencies.
C8_CompatibilityBeforeDependencies ==
    \A t \in Tasks :
        tasks[t].op = "register" =>
            /\ Contains(tasks[t].invoked, "validate_dependencies") =>
                  /\ tasks[t].invoked =
                        <<"check_version_compatibility",
                          "validate_dependencies">>
                  /\ tasks[t].compat = "ok"
            /\ tasks[t].compat = "fail" =>
                  /\ tasks[t].pc = "done"
                  /\ tasks[t].result = CompatFailed
                  /\ tasks[t].invoked = <<"check_version_compatibility">>

\* a plugin was rejected as incompatible with a plugin registered before
C8_Witness ==
    \E t \in Tasks :
        /\ tasks[t].op = "register" /\ tasks[t].compat = "fail"
        /\ tasks[t].result = CompatFailed
        /\ \E i \in Ids : plugins[i] # None

\* C9: initialize_plugin or shutdown_plugin entered with an id that is not
\* in the plugin table returns at once with is_valid=false and the
\* not-found error, invokes no plugin action, and leaves active_formats
\* and every status as they were.
C9_UnknownId ==
    [][\A t \in Tasks :
          (Enters(t) /\ tasks'[t].op \in {"initialize", "shutdown"}
              /\ plugins[tasks'[t].id] = None) =>
              /\ tasks'[t].pc = "done"
              /\ tasks'[t].result = NotFound
              /\ tasks'[t].invoked = <<>>
              /\ active_formats' = active_formats
              /\ Statuses' = Statuses]_vars

\* shutdown_plugin was refused for an unknown id while a plugin is active
C9_Witness ==
    \E t \in Tasks :
        /\ tasks[t].pc = "done" /\ tasks[t].op = "shutdown"
        /\ tasks[t].result = NotFound
        /\ plugins[tasks[t].id] = None
        /\ active_formats # <<>>

\* C10: a shutdown_plugin call whose shutdown action fails returns
\* is_valid=false, and no step of a shutdown_plugin call other than the
\* successful return changes a status or active_formats.
C10_ShutdownFailureKeepsState ==
    [][\A t \in Tasks :
          (Steps(t) /\ tasks'[t].op = "shutdown") =>
              /\ tasks'[t].action = "raise" =>
                    /\ tasks'[t].pc = "done"
                    /\ tasks'[t].result = ShutdownFailed
              /\ tasks'[t].result # Valid =>
                    /\ Statuses' = Statuses
                    /\ active_formats' = active_formats]_vars

\* the shutdown of an active plugin failed and the plugin is still active
C10_Witness ==
    \E t \in Tasks :
        /\ tasks[t].pc = "done" /\ tasks[t].op = "shutdown"
        /\ tasks[t].result = ShutdownFailed
        /\ StatusOf(tasks[t].id) = ACTIVE
        /\ Contains(active_formats, tasks[t].id)

\* a DependencyManager call is entered by caller c
EntersDep(c) == CanCallDep(c) /\ calls'[c] # calls[c]

\* the dependency map has an entry the loop does not skip
HasRuntime(deps) == \E k \in 1..Len(deps) : deps[k].scope = RUNTIME

\* C11: validate_dependencies entered for a key whose cache entry is
\* younger than the TTL returns at once the result stored in the entry,
\* looks no version up and leaves the cache as it is; entered for a key
\* with no entry or with an entry of age >= TTL it does not serve the cache.
C11_CacheHitWithinTtl ==
    [][\A c \in Tasks :
          (EntersDep(c) /\ calls'[c].op = "validate") =>
              LET entry == validation_cache[calls'[c].key] IN
              IF entry # NoEntry /\ now - entry.timestamp < cache_ttl
              THEN /\ calls'[c].pc = "done"
                   /\ calls'[c].hit
                   /\ calls'[c].result = entry.result
                   /\ calls'[c].looked = <<>>
                   /\ validation_cache' = validation_cache
              ELSE /\ ~calls'[c].hit
                   /\ HasRuntime(calls'[c].deps) =>
                         calls'[c].looked # <<>>]_vars

\* an entry that has aged, but less than the TTL, was served to a call
\* whose dependency map would have needed a lookup
C11_Witness ==
    \E c \in Tasks :
        /\ calls[c].op = "validate" /\ calls[c].pc = "done" /\ calls[c].hit
        /\ HasRuntime(calls[c].deps)
        /\ validation_cache[calls[c].key].timestamp < now
        /\ calls[c].result = validation_cache[calls[c].key].result

\* C12: with overlapping validate_dependencies calls and a clock that
\* advances, a call that returns a cached result returns one of an age
\* below the TTL, and a call that returns a computed result has put it in
\* the cache under its key with the time of that moment, the other keys
\* untouched.
C12_NeverServesStale ==
    [][\A c \in Tasks :
          (calls'[c] # calls[c] /\ calls'[c].op = "validate"
              /\ calls'[c].pc = "done") =>
              LET k == calls'[c].key IN
              IF calls'[c].hit
              THEN /\ validation_cache[k] # NoEntry
                   /\ now - validation_cache[k].timestamp < cache_ttl
                   /\ calls'[c].result = validation_cache[k].result
              ELSE /\ validation_cache'[k] =
                         [result |-> calls'[c].result, timestamp |-> now]
                   /\ \A j \in CacheKeys \ {k} :
                         validation_cache'[j] = validation_cache[j]]_vars

\* a call found an entry too old to serve and has replaced it, while
\* another call is suspended in a lookup
C12_Witness ==
    \E c, d \in Tasks :
        /\ calls[c].op = "validate" /\ calls[c].pc = "done"
        /\ calls[c].found /\ ~calls[c].hit
        /\ validation_cache[calls[c].key].timestamp = now
        /\ calls[d].pc = "lookup" /\ calls[d].key = calls[c].key

\* the requirements two different plugins put on one name that no version
\* satisfies together
Conflicting(reqs) ==
    \E r1, r2 \in reqs :
        /\ r1[1] # r2[1]
        /\ ~\E v \in Versions :
              SpecifierContains(v, r1[2]) /\ SpecifierContains(v, r2[2])

\* C13: resolve_dependencies over plugins of which two require versions of
\* one dependency that cannot be satisfied together returns is_valid=false
\* with an incompatible-version error for that dependency.
C13_ConflictIsReported ==
    \A c \in Tasks :
        (calls[c].op = "resolve" /\ calls[c].pc = "done") =>
            \A n \in DepNames :
                Conflicting(Requirements(calls[c].plist, n)) =>
                    /\ ~calls[c].result.is_valid
                    /\ \E k \in 1..Len(calls[c].result.errors) :
                          calls[c].result.errors[k] =
                              [code |-> DEP004, dep |-> n]

\* C14: a dependency for which all plugins declare one and the same
\* requirement string gets no error from resolve_dependencies, and the
\* result is is_valid=true with zero errors when that is so for every
\* dependency.
C14_SameRequirementIsNoConflict ==
    \A c \in Tasks :
        (calls[c].op = "resolve" /\ calls[c].pc = "done") =>
            LET Same(n) ==
                  Cardinality({r[2] : r \in Requirements(calls[c].plist, n)})
                      <= 1
            IN /\ \A n \in DepNames :
                     Same(n) =>
                        ~\E k \in 1..Len(calls[c].result.errors) :
                             calls[c].result.errors[k].dep = n
               /\ (\A n \in DepNames : Same(n)) =>
                     /\ calls[c].result.is_valid
                     /\ calls[c].result.errors = <<>>

\* the entries of a dependency map whose scope is RUNTIME, in order
IsRuntime(d) == d.scope = RUNTIME
RuntimeDeps(deps) == SelectSeq(deps, IsRuntime)

\* the dependency names a result has errors for, and warnings for
ErrorDeps(result) == {result.errors[k].dep : k \in 1..Len(result.errors)}
WarningDeps(result) == {result.warnings[k].dep : k \in 1..Len(result.warnings)}

\* a validate_dependencies call that has returned a computed result
Computed(c) ==
    calls[c].op = "validate" /\ calls[c].pc = "done" /\ ~calls[c].hit

\* the lookup found a version that satisfies the requirement of d
Satisfied(d, outcome) ==
    /\ outcome.kind = "version"
    /\ Parses(d.version)
    /\ SpecifierContains(outcome.v, d.version)

\* C15: validate_dependencies never looks up a dependency whose scope is
\* TEST, a computed result has neither an error nor a warning for one, and
\* the result is is_valid=true when every RUNTIME dependency was found at a
\* satisfying version, whatever the TEST ones are.
C15_TestScopeIsIgnored ==
    \A c \in Tasks :
        calls[c].op = "validate" =>
            LET deps == calls[c].deps
                rd == RuntimeDeps(deps)
                res == calls[c].result
            IN /\ \A k \in 1..Len(calls[c].looked) :
                     \E j \in 1..Len(deps) :
                        deps[j].name = calls[c].looked[k] /\ deps[j].scope # TEST
               /\ Computed(c) =>
                     /\ \A j \in 1..Len(deps) :
                           deps[j].scope = TEST =>
                              deps[j].name \notin ErrorDeps(res) \cup WarningDeps(res)
                     /\ (\A k \in 1..Len(rd) : Satisfied(rd[k], calls[c].seen[k]))
                           => (res.is_valid /\ res.errors = <<>>)

\* a plugin with a Required Test-scope dependency and a satisfied Runtime
\* one was validated with one lookup
C15_Witness ==
    \E c \in Tasks :
        /\ Computed(c)
        /\ Len(calls[c].deps) = 2
        /\ calls[c].deps[1].scope = TEST /\ calls[c].deps[1].type = REQUIRED
        /\ calls[c].deps[2].scope = RUNTIME
        /\ calls[c].looked = <<calls[c].deps[2].name>>
        /\ calls[c].result.is_valid

\* the evaluation of RUNTIME dependency d with this answer of the lookup is
\* one that the result reports as an error
Faulty(d, outcome) ==
    \/ outcome.kind = "raise"
    \/ outcome.kind = "none" /\ d.type = REQUIRED
    \/ outcome.kind = "version" /\ ~Parses(d.version)
    \/ /\ outcome.kind = "version" /\ Parses(d.version)
       /\ ~SpecifierContains(outcome.v, d.version) /\ d.type = REQUIRED

\* C16: a computed result is is_valid=true exactly when its error list is
\* empty, and the error list has one entry for each RUNTIME dependency that
\* is Required and absent, Required and at a version outside the
\* requirement, or whose lookup or parse failed, and no other entry; an
\* empty dependency map gives is_valid=true with no errors and no warnings.
C16_ErrorsOfComputedResult ==
    \A c \in Tasks :
        Computed(c) =>
            LET rd == RuntimeDeps(calls[c].deps)
                seen == calls[c].seen
                res == calls[c].result
                faulty == {k \in 1..Len(rd) : Faulty(rd[k], seen[k])}
            IN /\ Len(seen) = Len(rd)
               /\ res.is_valid = (res.errors = <<>>)
               /\ Len(res.errors) = Cardinality(faulty)
               /\ ErrorDeps(res) = {rd[k].name : k \in faulty}
               /\ calls[c].deps = <<>> =>
                     (res.is_valid /\ res.errors = <<>> /\ res.warnings = <<>>)

\* of two Required Runtime dependencies one was found at a version outside
\* its requirement and the other at a satisfying one
C16_Witness ==
    \E c \in Tasks :
        /\ Computed(c)
        /\ Len(calls[c].deps) = 2 /\ Len(calls[c].seen) = 2
        /\ calls[c].deps[1].type = REQUIRED /\ calls[c].deps[2].type = REQUIRED
        /\ calls[c].deps[1].version = ReqAtLeast
        /\ calls[c].seen[1] = Installed(19)
        /\ Satisfied(calls[c].deps[2], calls[c].seen[2])
        /\ calls[c].result.errors =
              <<[code |-> DEP002, dep |-> calls[c].deps[1].name]>>

\* C17: a computed result has no error for a dependency whose type is
\* Optional.
C17_OptionalNeverAnError ==
    \A c \in Tasks :
        Computed(c) =>
            \A j \in 1..Len(calls[c].deps) :
                calls[c].deps[j].type = OPTIONAL =>
                    calls[c].deps[j].name \notin ErrorDeps(calls[c].result)

\* C18: a validate_dependencies call that computes its result evaluates
\* every RUNTIME dependency, whatever failed before it: a failed lookup or
\* parse is in the result as a DEP003 error of that dependency, and the
\* finding for every other dependency is in it as well; the call ends with
\* a ValidationResult.
C18_FailureDoesNotStopTheLoop ==
    \A c \in Tasks :
        Computed(c) =>
            LET rd == RuntimeDeps(calls[c].deps)
                seen == calls[c].seen
                res == calls[c].result
                Has(code, n) ==
                    \E k \in 1..Len(res.errors) :
                        res.errors[k] = [code |-> code, dep |-> n]
            IN /\ res # NoValidation
               /\ Len(seen) = Len(rd)
               /\ \A k \in 1..Len(rd) :
                     /\ (seen[k].kind = "raise"
                            \/ (seen[k].kind = "version" /\ ~Parses(rd[k].version)))
                           => Has(DEP003, rd[k].name)
                     /\ seen[k].kind = "none" =>
                           \/ Has(DEP001, rd[k].name)
                           \/ rd[k].name \in WarningDeps(res)
                     /\ (seen[k].kind = "version" /\ Parses(rd[k].version)
                            /\ ~SpecifierContains(seen[k].v, rd[k].version))
                           => \/ Has(DEP002, rd[k].name)
                              \/ rd[k].name \in WarningDeps(res)

\* the lookup raised for the first dependency and the second one, absent
\* and Required, was still evaluated and reported
C18_Witness ==
    \E c \in Tasks :
        /\ Computed(c)
        /\ Len(calls[c].seen) = 2
        /\ calls[c].seen[1] = LookupRaises
        /\ calls[c].seen[2] = NotInstalled
        /\ calls[c].result.errors =
              <<[code |-> DEP003, dep |-> calls[c].deps[1].name],
                [code |-> DEP001, dep |-> calls[c].deps[2].name]>>

\* C19: no call to register_plugin, initialize_plugin or shutdown_plugin
\* ends by a raised failure: whatever the plugin's actions do, the call
\* ends by returning a ValidationResult.
C19_CallsNeverRaise ==
    \A t \in Tasks : tasks[t].result # Raised

\* C20: a step in which the caller reads an accessor or changes a value it
\* got from one leaves the registry's plugin table, metadata table, every
\* plugin's stored status and active_formats as they were.
C20_ViewsAreDefensive ==
    [][CallerStep(Ids) =>
          /\ plugins' = plugins
          /\ metadata' = metadata
          /\ active_formats' = active_formats
          /\ \A i \in Ids : Statuses'[i] = Statuses[i]]_vars

\* the calls that are register_plugin calls for id and returned is_valid=true
RegisteredBy(id) ==
    {t \in Tasks : /\ tasks[t].op = "register" /\ tasks[t].id = id
                   /\ tasks[t].pc = "done" /\ tasks[t].result = Valid}

\* C21: of the register_plugin calls carrying one plugin id at most one
\* returns is_valid=true, and the plugin instance and the metadata stored
\* for an id are never overwritten.
C21_IdIsUnique ==
    /\ [](\A i \in Ids : Cardinality(RegisteredBy(i)) <= 1)
    /\ [][\A i \in Ids :
             plugins[i] # None =>
                 (plugins'[i] = plugins[i] /\ metadata'[i] = metadata[i])]_vars

\* C22: no id is in active_formats more than once, whatever the
\* interleaving of the calls and however often initialize_plugin succeeds
\* for the id.
C22_ActiveFormatsHasNoDuplicate ==
    \A i \in Ids : CountOf(active_formats, i) <= 1

\* two initialize_plugin calls for one id have both returned is_valid=true
\* and the id is in active_formats
C22_Witness ==
    \E t, u \in Tasks :
        /\ t # u
        /\ tasks[t].op = "initialize" /\ tasks[u].op = "initialize"
        /\ tasks[t].id = tasks[u].id
        /\ tasks[t].result = Valid /\ tasks[u].result = Valid
        /\ CountOf(active_formats, tasks[t].id) = 1

\* the ids that have an entry in the plugin table, and in the metadata table
PluginKeys == {i \in Ids : plugins[i] # None}
MetadataKeys == {i \in Ids : metadata[i] # None}

\* C23: the plugin table and the metadata table have the same ids, every
\* id in active_formats is one of them, before and after every step, and
\* no step removes an id from either table.
C23_TablesAgreeAndOnlyGrow ==
    [][/\ PluginKeys = MetadataKeys
       /\ ActiveSet \subseteq PluginKeys
       /\ PluginKeys' = MetadataKeys'
       /\ ActiveSet' \subseteq PluginKeys'
       /\ PluginKeys \subseteq PluginKeys'
       /\ MetadataKeys \subseteq MetadataKeys']_vars

\* a registered plugin was initialized and shut down, another call on its
\* id is in progress, and the id is still in both tables
C23_Witness ==
    \E t, u \in Tasks :
        /\ t # u
        /\ tasks[t].op = "shutdown" /\ tasks[t].result = Valid
        /\ tasks[u].pc \notin {"idle", "done"}
        /\ tasks[u].id = tasks[t].id
        /\ tasks[t].id \in PluginKeys \cap MetadataKeys

\* C24: with one caller, the result a validate_dependencies call returned
\* is the result the cache holds for the call's key: a computed result,
\* valid or not, was stored under the key, and a call that found an entry
\* younger than the TTL returned the entry's result without evaluating its
\* own dependency map, whatever the map and whatever is installed now.
C24_ResultDependsOnKeyOnly ==
    \A c \in SeqTasks :
        (calls[c].op = "validate" /\ calls[c].pc = "done") =>
            LET entry == validation_cache[calls[c].key] IN
            /\ entry # NoEntry
            /\ calls[c].result = entry.result
            /\ entry.timestamp <= now
            /\ calls[c].hit =>
                  /\ calls[c].looked = <<>>
                  /\ calls[c].seen = <<>>
                  /\ calls[c].errors = <<>>

\* a call whose plugin has no dependency at all was given the is_valid=false
\* result cached for its key by an earlier call with another dependency map
C24_Witness ==
    \E c \in SeqTasks :
        /\ calls[c].op = "validate" /\ calls[c].pc = "done" /\ calls[c].hit
        /\ calls[c].deps = <<>>
        /\ ~calls[c].result.is_valid
        /\ calls[c].result.errors # <<>>
        /\ validation_cache[calls[c].key].timestamp < now

\* C25: every initialize_plugin call that has reached the await of the
\* plugin's initialize action completes, and in the step that completes it
\* the stored status of its id becomes ACTIVE when the action succeeded and
\* ERROR when it failed.
C25_InitializingIsTransient ==
    /\ \A t \in Tasks : (tasks[t].pc = "init") ~> (tasks[t].pc = "done")
    /\ [][\A t \in Tasks :
             (tasks[t].pc = "init" /\ tasks'[t].pc = "done") =>
                 Statuses'[tasks[t].id] =
                     (IF tasks'[t].result = Valid THEN ACTIVE ELSE ERROR)]_vars

====
